---- MODULE Spec2Model ----
(***************************************************************************)
(* Uniform-buffer layout: UniformFormat (one named, typed uniform) and     *)
(* UniformBufferFormat (the layout compiled from an array of them), from   *)
(* src/graphics/uniform-buffer-format.js.                                  *)
(*                                                                         *)
(* JavaScript objects are modelled by identity: a UniformFormat is an      *)
(* index into the heap `descs`, an array is an index into `arrays`, and a  *)
(* UniformBufferFormat keeps the index of the array it was given, exactly  *)
(* as the constructor keeps the reference (this.uniforms = uniforms).      *)
(***************************************************************************)
EXTENDS Integers, Sequences, FiniteSets, TLC

\* ---------------------------------------------------------------- bounds
MaxDescs == 2           \* UniformFormat objects ever constructed
MaxLen == 2             \* longest array
MaxFormats == 1         \* UniformBufferFormat constructor calls, Spec
MaxSharedFormats == 2   \* UniformBufferFormat constructor calls, SpecShared

\* ------------------------------------------------------ JavaScript values
\* undefined: an unset field, a missing array index, a Map miss.
Undefined == -1
\* NaN: the sum of a number and undefined.
NaN == -2
\* A quotient that is not a whole number (a byte cursor not divisible by 4).
NonInteger == -3

\* ------------------------------------------------------------- type tags
\* The tags that uniformTypeToByteSize registers (lines 12-24).
RegisteredTypes ==
    { "UNIFORMTYPE_FLOAT", "UNIFORMTYPE_VEC2", "UNIFORMTYPE_VEC3", "UNIFORMTYPE_VEC4",
      "UNIFORMTYPE_INT", "UNIFORMTYPE_IVEC2", "UNIFORMTYPE_IVEC3", "UNIFORMTYPE_IVEC4",
      "UNIFORMTYPE_BOOL", "UNIFORMTYPE_BVEC2", "UNIFORMTYPE_BVEC3", "UNIFORMTYPE_BVEC4",
      "UNIFORMTYPE_MAT4" }

\* Tags of the engine that the table does not register (lines 26-37).
UnregisteredTypes ==
    { "UNIFORMTYPE_MAT2", "UNIFORMTYPE_MAT3", "UNIFORMTYPE_TEXTURE2D" }

AllTypes == RegisteredTypes \cup UnregisteredTypes

\* The tags the layout specification draws from: a scalar, a vector whose size
\* is not a multiple of 16, and an unregistered tag.
SampleTypes == { "UNIFORMTYPE_FLOAT", "UNIFORMTYPE_VEC3", "UNIFORMTYPE_MAT2" }

\* Uniform names the caller uses, and one name no uniform ever has.
Names == { "a", "b" }
LookupNames == Names \cup { "absent" }

\* ------------------------------------------------------------ the table
\* uniformTypeToByteSize with an unknown size silently defaulted to 4 bytes.
uniformTypeToByteSizeDefaulted(type) ==
    CASE type \in { "UNIFORMTYPE_FLOAT", "UNIFORMTYPE_INT", "UNIFORMTYPE_BOOL" } -> 4
      [] type \in { "UNIFORMTYPE_VEC2", "UNIFORMTYPE_IVEC2", "UNIFORMTYPE_BVEC2" } -> 8
      [] type \in { "UNIFORMTYPE_VEC3", "UNIFORMTYPE_IVEC3", "UNIFORMTYPE_BVEC3" } -> 12
      [] type \in { "UNIFORMTYPE_VEC4", "UNIFORMTYPE_IVEC4", "UNIFORMTYPE_BVEC4" } -> 16
      [] type = "UNIFORMTYPE_MAT4" -> 64
      [] OTHER -> 4

\* uniformTypeToByteSize with three-component vectors padded to 16 bytes.
uniformTypeToByteSizePadded(type) ==
    CASE type = "UNIFORMTYPE_FLOAT" -> 4
      [] type = "UNIFORMTYPE_VEC2" -> 8
      [] type = "UNIFORMTYPE_VEC3" -> 16
      [] type = "UNIFORMTYPE_VEC4" -> 16
      [] type = "UNIFORMTYPE_INT" -> 4
      [] type = "UNIFORMTYPE_IVEC2" -> 8
      [] type = "UNIFORMTYPE_IVEC3" -> 16
      [] type = "UNIFORMTYPE_IVEC4" -> 16
      [] type = "UNIFORMTYPE_BOOL" -> 4
      [] type = "UNIFORMTYPE_BVEC2" -> 8
      [] type = "UNIFORMTYPE_BVEC3" -> 16
      [] type = "UNIFORMTYPE_BVEC4" -> 16
      [] type = "UNIFORMTYPE_MAT4" -> 64
      [] OTHER -> Undefined

\* uniformTypeToByteSize[type]: a sparse array, undefined at an index never set.
uniformTypeToByteSize(type) ==
    CASE type = "UNIFORMTYPE_FLOAT" -> 4
      [] type = "UNIFORMTYPE_VEC2" -> 8
      [] type = "UNIFORMTYPE_VEC3" -> 12
      [] type = "UNIFORMTYPE_VEC4" -> 16
      [] type = "UNIFORMTYPE_INT" -> 4
      [] type = "UNIFORMTYPE_IVEC2" -> 8
      [] type = "UNIFORMTYPE_IVEC3" -> 12
      [] type = "UNIFORMTYPE_IVEC4" -> 16
      [] type = "UNIFORMTYPE_BOOL" -> 4
      [] type = "UNIFORMTYPE_BVEC2" -> 8
      [] type = "UNIFORMTYPE_BVEC3" -> 12
      [] type = "UNIFORMTYPE_BVEC4" -> 16
      [] type = "UNIFORMTYPE_MAT4" -> 64
      [] OTHER -> Undefined

\* ------------------------------------------------- JavaScript arithmetic
\* byteSize / 4 (line 98): the exact quotient.
JsDivide4(n) ==
    IF n \in { Undefined, NaN, NonInteger } THEN NaN
    ELSE IF n % 4 = 0 THEN n \div 4
    ELSE NonInteger

\* byteSize += uniform.byteSize with every size rounded up to 16 bytes.
JsAddAligned(x, y) ==
    IF x \in { Undefined, NaN, NonInteger } \/ y \in { Undefined, NaN, NonInteger } THEN NaN
    ELSE x + 16 * ((y + 15) \div 16)

\* byteSize += uniform.byteSize (line 99): number + undefined is NaN.
JsAdd(x, y) ==
    IF x \in { Undefined, NaN, NonInteger } \/ y \in { Undefined, NaN, NonInteger } THEN NaN
    ELSE x + y

\* The truthiness Debug.assert tests: undefined, NaN and 0 are falsy.
Truthy(v) == v \notin { Undefined, NaN, 0 }

\* Debug.assert(assertion, ...): the assertion failing aborts the constructor.
DebugAssertPasses(assertion) == Truthy(assertion)

\* ------------------------------------------------------------------ Map
\* new Map(): no entries.
EmptyMap == [k \in {} |-> Undefined]

\* Map.prototype.get: undefined when the key has no entry.
MapGet(map, key) == IF key \in DOMAIN map THEN map[key] ELSE Undefined

\* Map.prototype.set that keeps the entry a key already has.
MapSetKeepFirst(map, key, value) ==
    [k \in (DOMAIN map) \cup { key } |-> IF k \in DOMAIN map THEN map[k] ELSE value]

\* Map.prototype.set called without the value: the key is stored with undefined.
MapSetNoValue(map, key, value) ==
    [k \in (DOMAIN map) \cup { key } |-> IF k = key THEN Undefined ELSE map[k]]

\* Map.prototype.set: the key's entry is created or overwritten.
MapSet(map, key, value) ==
    [k \in (DOMAIN map) \cup { key } |-> IF k = key THEN value ELSE map[k]]

\* ---------------------------------------------------------------- state
VARIABLES
    descs,          \* heap of UniformFormat objects: [name, type, byteSize, offset]
    arrays,         \* heap of caller arrays: sequences of descriptor ids or Undefined
    formats,        \* heap of UniformBufferFormat objects: [uniforms, byteSize, map]
    compiledFrom,   \* per format, the contents its array had when it was compiled
    offsetWrites,   \* per descriptor, how many times line 98 has assigned its offset
    aborted,        \* how many UniformBufferFormat constructor calls have thrown
    result          \* how the last operation ended

vars == << descs, arrays, formats, compiledFrom, offsetWrites, aborted, result >>

DescIds == 1..Len(descs)
ArrayIds == 1..Len(arrays)
FormatIds == 1..Len(formats)

\* UniformBufferFormat constructor calls made so far.
Calls == Len(formats) + aborted

\* Array literals of at most MaxLen elements.
Lists(elements) == UNION { [1..n -> elements] : n \in 0..MaxLen }

Init ==
    /\ descs = << >>
    /\ arrays = << >>
    /\ formats = << >>
    /\ compiledFrom = << >>
    /\ offsetWrites = << >>
    /\ aborted = 0
    /\ result = "none"

\* ------------------------------------------------- UniformFormat (44-70)
\* new UniformFormat(name, type): byteSize from the table, offset left unset;
\* a failed assertion aborts and no object is returned.
NewUniformFormat(name, type) ==
    /\ Len(descs) < MaxDescs
    /\ LET byteSize == uniformTypeToByteSize(type) IN
       IF DebugAssertPasses(byteSize)
       THEN /\ descs' = Append(descs, [name |-> name, type |-> type,
                                       byteSize |-> byteSize, offset |-> Undefined])
            /\ offsetWrites' = Append(offsetWrites, 0)
            /\ result' = "ok"
       ELSE /\ UNCHANGED << descs, offsetWrites >>
            /\ result' = "assert"
    /\ UNCHANGED << arrays, formats, compiledFrom, aborted >>

\* ------------------------------------------- UniformBufferFormat (77-105)
\* The `for` loop of the constructor (lines 95-102) from index i on (1-based
\* here), run on the heap ds. Writing a property of an undefined element
\* throws a TypeError: the loop stops there, with the writes already made kept.
RECURSIVE CompileLoop(_, _, _, _, _, _)
CompileLoop(uniforms, i, byteSize, ds, map, writes) ==
    IF i > Len(uniforms)
    THEN [completed |-> TRUE, byteSize |-> byteSize, descs |-> ds,
          map |-> map, writes |-> writes]
    ELSE LET uniform == uniforms[i] IN
         IF uniform = Undefined
         THEN [completed |-> FALSE, byteSize |-> byteSize, descs |-> ds,
               map |-> map, writes |-> writes]
         ELSE LET placed == [ds EXCEPT ![uniform].offset = JsDivide4(byteSize)]
              IN CompileLoop(uniforms, i + 1,
                             JsAdd(byteSize, placed[uniform].byteSize),
                             placed,
                             MapSet(map, placed[uniform].name, uniform),
                             [writes EXCEPT ![uniform] = @ + 1])

\* The constructor body on array a of the array heap `heap`: keeps the array
\* by reference (line 91), places every element in place and stores the total
\* (line 103). When the loop throws, no object is returned.
UniformBufferFormatConstructor(a, heap) ==
    LET r == CompileLoop(heap[a], 1, 0, descs, EmptyMap, offsetWrites) IN
    /\ descs' = r.descs
    /\ offsetWrites' = r.writes
    /\ IF r.completed
       THEN /\ formats' = Append(formats, [uniforms |-> a, byteSize |-> r.byteSize,
                                           map |-> r.map])
            /\ compiledFrom' = Append(compiledFrom, heap[a])
            /\ result' = "compiled"
            /\ UNCHANGED aborted
       ELSE /\ UNCHANGED << formats, compiledFrom >>
            /\ aborted' = aborted + 1
            /\ result' = "TypeError"

\* new UniformBufferFormat([ ...list ]): the caller keeps the array it passes.
NewUniformBufferFormat(list) ==
    /\ arrays' = Append(arrays, list)
    /\ UniformBufferFormatConstructor(Len(arrays) + 1, Append(arrays, list))

\* new UniformBufferFormat(uniforms) on an array already passed to a constructor.
NewUniformBufferFormatOfArray(a) ==
    /\ a \in ArrayIds
    /\ UNCHANGED arrays
    /\ UniformBufferFormatConstructor(a, arrays)

\* ------------------------------------------------------ the caller's array
\* uniforms.push(element): the caller may change the array it passed to the
\* constructor at any time; element is a descriptor or a hole.
ArrayPush(a, element) ==
    /\ a \in ArrayIds
    /\ Len(arrays[a]) < MaxLen
    /\ arrays' = [arrays EXCEPT ![a] = Append(@, element)]
    /\ result' = "ok"
    /\ UNCHANGED << descs, formats, compiledFrom, offsetWrites, aborted >>

\* ------------------------------------------------------- specifications
\* Arrays of descriptors.
Next ==
    \/ \E name \in Names, type \in SampleTypes : NewUniformFormat(name, type)
    \/ \E list \in Lists(DescIds) : Calls < MaxFormats /\ NewUniformBufferFormat(list)
    \/ \E a \in ArrayIds, element \in DescIds : ArrayPush(a, element)

Spec == Init /\ [][Next]_vars

\* Arrays that may hold holes, descriptors and arrays passed to several constructors.
NextShared ==
    \/ \E name \in Names, type \in SampleTypes : NewUniformFormat(name, type)
    \/ \E list \in Lists(DescIds \cup { Undefined }) :
          Calls < MaxSharedFormats /\ NewUniformBufferFormat(list)
    \/ \E a \in ArrayIds : Calls < MaxSharedFormats /\ NewUniformBufferFormatOfArray(a)
    \/ \E a \in ArrayIds, element \in DescIds \cup { Undefined } : ArrayPush(a, element)

SpecShared == Init /\ [][NextShared]_vars

\* Descriptors only, over every type tag of the engine.
NextTable == \E name \in Names, type \in AllTypes : NewUniformFormat(name, type)

SpecTable == Init /\ [][NextTable]_vars

\* ================================================================ claims
\* The field sequence of format f: this.uniforms, the caller's array itself.
Fields(f) == arrays[formats[f].uniforms]

\* The format the last operation constructed.
Last == Len(formats)
JustCompiled == result = "compiled"

\* Sum of the byteSize of the first n elements of a list of descriptors.
RECURSIVE SumByteSize(_, _)
SumByteSize(list, n) ==
    IF n = 0 THEN 0 ELSE SumByteSize(list, n - 1) + descs[list[n]].byteSize

\* The positions of a list whose descriptor is named name.
PositionsNamed(list, name) == { i \in 1..Len(list) : descs[list[i]].name = name }

SetMax(S) == CHOOSE x \in S : \A y \in S : y <= x

\* C1: right after a UniformBufferFormat is constructed from a list of
\* descriptors, every index i has fields[i].offset * 4 equal to the sum of the
\* byteSize of the fields before it.
C1_PackedInDeclarationOrder ==
    JustCompiled =>
        \A i \in 1..Len(Fields(Last)) :
            descs[Fields(Last)[i]].offset * 4 = SumByteSize(Fields(Last), i - 1)

\* C2: right after construction, the format's byteSize is exactly the sum of
\* the byteSize of all its fields, repeated ones included, and 0 for the empty list.
C2_TotalIsSumOfSizes ==
    JustCompiled =>
        /\ formats[Last].byteSize = SumByteSize(Fields(Last), Len(Fields(Last)))
        /\ Fields(Last) = << >> => formats[Last].byteSize = 0

C2_Witness ==
    /\ JustCompiled
    /\ Len(Fields(Last)) = 2
    /\ descs[Fields(Last)[1]].type = "UNIFORMTYPE_VEC3"
    /\ descs[Fields(Last)[2]].type = "UNIFORMTYPE_FLOAT"
    /\ formats[Last].byteSize = 16

\* C3: no descriptor exists whose type is unregistered or whose byteSize is
\* unset, and every format that was produced was compiled from sized
\* descriptors into numeric offsets and a numeric total: constructing a
\* UniformFormat with an unregistered tag ends in the failed assertion.
C3_UnregisteredTypeFails ==
    /\ \A d \in DescIds :
          /\ descs[d].type \in RegisteredTypes
          /\ descs[d].byteSize \in Nat \ { 0 }
    /\ \A f \in FormatIds :
          /\ formats[f].byteSize \in Nat
          /\ \A i \in 1..Len(compiledFrom[f]) :
                /\ compiledFrom[f][i] \in DescIds
                /\ descs[compiledFrom[f][i]].offset \in Nat

C3_Witness ==
    /\ result = "assert"
    /\ Len(descs) = 1
    /\ Len(formats) = 1
    /\ Len(compiledFrom[1]) = 2

\* C4: right after construction, looking up the name of any field gives a
\* descriptor that is an element of the field sequence and has that name;
\* looking up a name no field has gives undefined.
C4_LookupByName ==
    JustCompiled =>
        \A name \in LookupNames :
            LET hit == MapGet(formats[Last].map, name) IN
            IF PositionsNamed(Fields(Last), name) # {}
            THEN /\ hit # Undefined
                 /\ \E i \in PositionsNamed(Fields(Last), name) : Fields(Last)[i] = hit
            ELSE hit = Undefined

C4_Witness ==
    /\ JustCompiled
    /\ Len(Fields(Last)) = 2
    /\ MapGet(formats[Last].map, "a") = Fields(Last)[2]
    /\ descs[Fields(Last)[2]].offset = 3
    /\ MapGet(formats[Last].map, "b") = Undefined
    /\ MapGet(formats[Last].map, "absent") = Undefined

FormatView(f) ==
    [ byteSize |-> formats[f].byteSize,
      fields |-> Fields(f),
      map |-> formats[f].map,
      placement |-> [ i \in 1..Len(Fields(f)) |->
                        IF Fields(f)[i] = Undefined THEN << Undefined, Undefined >>
                        ELSE << descs[Fields(f)[i]].offset, descs[Fields(f)[i]].byteSize >> ] ]

\* C6: a constructed UniformBufferFormat is immutable: no later operation
\* changes its byteSize, field sequence, map or the offset and byteSize of any
\* of its fields.
C6_ImmutableOnceConstructed ==
    [][ \A f \in FormatIds : FormatView(f)' = FormatView(f) ]_vars

\* The canonical byte size of each registered type tag.
CanonicalByteSize(type) ==
    IF type \in { "UNIFORMTYPE_FLOAT", "UNIFORMTYPE_INT", "UNIFORMTYPE_BOOL" } THEN 4
    ELSE IF type \in { "UNIFORMTYPE_VEC2", "UNIFORMTYPE_IVEC2", "UNIFORMTYPE_BVEC2" } THEN 8
    ELSE IF type \in { "UNIFORMTYPE_VEC3", "UNIFORMTYPE_IVEC3", "UNIFORMTYPE_BVEC3" } THEN 12
    ELSE IF type \in { "UNIFORMTYPE_VEC4", "UNIFORMTYPE_IVEC4", "UNIFORMTYPE_BVEC4" } THEN 16
    ELSE IF type = "UNIFORMTYPE_MAT4" THEN 64
    ELSE Undefined

\* C7: every UniformFormat has the canonical byte size of its type tag (4 for
\* the scalars, 8, 12 and 16 for the 2-, 3- and 4-component vectors, 64 for
\* mat4), which is the table's entry for that tag.
C7_CanonicalSizes ==
    \A d \in DescIds :
        /\ descs[d].type \in RegisteredTypes
        /\ descs[d].byteSize = CanonicalByteSize(descs[d].type)
        /\ descs[d].byteSize = uniformTypeToByteSize(descs[d].type)

C7_Witness ==
    /\ Len(descs) = 2
    /\ descs[1].type = "UNIFORMTYPE_BVEC3"
    /\ descs[1].byteSize = 12
    /\ descs[2].type = "UNIFORMTYPE_MAT4"
    /\ descs[2].byteSize = 64

\* The names and types, in order, of a list of descriptors.
NamesAndTypes(list) ==
    [ i \in 1..Len(list) |-> << descs[list[i]].name, descs[list[i]].type >> ]

\* C8: right after a construction, every format compiled from the same ordered
\* names and types has the same total byteSize and, at every field position,
\* the same offset and byteSize as the format just constructed.
C8_Deterministic ==
    JustCompiled =>
        \A f \in FormatIds :
            NamesAndTypes(compiledFrom[f]) = NamesAndTypes(compiledFrom[Last]) =>
                /\ formats[f].byteSize = formats[Last].byteSize
                /\ \A i \in 1..Len(compiledFrom[f]) :
                      /\ descs[compiledFrom[f][i]].offset = descs[compiledFrom[Last][i]].offset
                      /\ descs[compiledFrom[f][i]].byteSize = descs[compiledFrom[Last][i]].byteSize

\* C9: a descriptor's offset is unset until a constructor assigns it, and it is
\* never assigned a second time.
C9_OffsetWrittenOnce ==
    \A d \in DescIds :
        /\ offsetWrites[d] <= 1
        /\ offsetWrites[d] = 0 <=> descs[d].offset = Undefined

\* C10: a construction that aborts returns no format and has written no
\* descriptor's offset.
C10_AtomicConstruction ==
    [][ (result' = "TypeError" /\ aborted' = aborted + 1) =>
            (formats' = formats /\ descs' = descs) ]_vars

\* C11: right after construction from a list of descriptors, every offset is a
\* non-negative whole number of words (the byte cursor was a multiple of 4 at
\* every step), offsets strictly increase in declaration order, and the byte
\* ranges [offset * 4, offset * 4 + byteSize) of distinct positions are
\* pairwise disjoint and lie inside [0, byteSize of the format).
C11_WordAlignedDisjointRanges ==
    JustCompiled =>
        LET fields == Fields(Last)
            first(i) == descs[fields[i]].offset * 4
            beyond(i) == descs[fields[i]].offset * 4 + descs[fields[i]].byteSize
        IN /\ \A i \in 1..Len(fields) :
                 /\ descs[fields[i]].offset \in Nat
                 /\ beyond(i) <= formats[Last].byteSize
           /\ \A i, j \in 1..Len(fields) :
                 i < j =>
                     /\ descs[fields[i]].offset < descs[fields[j]].offset
                     /\ beyond(i) <= first(j)

====
